---- MODULE Spec2Model ----
(***************************************************************************)
(* Model of the JDG tax calculator (backend/app): the domain layer         *)
(* (zus.py, health_insurance.py, tax_scale.py, linear_tax.py), the month   *)
(* sequencer (time_utils.py) and the TaxCalculator service.                *)
(*                                                                         *)
(* Money.  A Decimal amount is the integer number of half-grosze           *)
(* (1/200 PLN) it holds: every amount that crosses a function boundary in  *)
(* the program is a multiple of 0.005 PLN for inputs with two fractional   *)
(* digits (the only value off the grosz grid is the health floor           *)
(* 4666 * 0.75 * 0.09 = 314.9550).  Inside a function a product with a     *)
(* rate is kept exactly, as a numerator over a stated denominator, and is  *)
(* brought back to the grid only where the code calls quantize.            *)
(*                                                                         *)
(* Dates.  A datetime.date is the record [year, month, day].               *)
(***************************************************************************)
EXTENDS Integers, Sequences, FiniteSets, TLC

VARIABLES
    fn, args, ret,              \* the domain-layer function last called, its arguments, its return value
    base_month,                 \* TaxCalculator.base_month ('YYYY-MM' as a sequence of characters)
    business_start_date,        \* TaxCalculator.business_start_date
    monthly_revenues,           \* TaxCalculator.monthly_revenues
    monthly_costs,              \* TaxCalculator.monthly_costs
    one_time_costs,             \* TaxCalculator.one_time_costs
    lump_sum_revenues,          \* TaxCalculator.lump_sum_revenues
    months,                     \* TaxCalculator.months
    result                      \* what the last TaxCalculator method returned

callVars == <<fn, args, ret>>
calcVars == <<base_month, business_start_date, monthly_revenues, monthly_costs,
              one_time_costs, lump_sum_revenues, months, result>>
vars == <<fn, args, ret, base_month, business_start_date, monthly_revenues,
          monthly_costs, one_time_costs, lump_sum_revenues, months, result>>

----------------------------------------------------------------------------
(* Bounds of the model *)

FirstYear == 2022        \* first calendar year of the dates drawn
YearSpan == 5            \* number of calendar years the drawn dates cover
FineSpread == 240        \* half-grosze drawn on each side of every income of interest
CoarseSteps == 45        \* steps of the coarse income grid drawn on each side of 0
CoarseStepPLN == 500     \* width in PLN of one step of the coarse income grid
MaxMonthsCount == 2      \* largest months_count argument drawn
MaxMonthlyPLN == 35000   \* largest monthly income that is multiplied by 12 months
MaxEntries == 2          \* most entries of a rate -> revenue mapping drawn
LumpSpread == 12         \* the small revenues drawn are 0.01 .. LumpSpread / 100 PLN

----------------------------------------------------------------------------
(* Decimal arithmetic *)

Grosz(g) == 2 * g
PLN(z) == 200 * z

Max(a, b) == IF a >= b THEN a ELSE b

\* num/den grosze cut down to whole grosze instead of rounded
QuantizeTruncating(num, den) == Grosz(num \div den)

\* Decimal.quantize(Decimal("0.01")) of the value num/den grosze, under the
\* default context (ROUND_HALF_EVEN); the result is in half-grosze.
Quantize(num, den) ==
    LET q == num \div den
        r == num % den
    IN  Grosz(IF 2 * r < den THEN q
              ELSE IF 2 * r > den THEN q + 1
              ELSE IF q % 2 = 0 THEN q ELSE q + 1)

----------------------------------------------------------------------------
(* core/constants_2025.py *)

TAX_SCALE_THRESHOLD == PLN(120000)
TAX_SCALE_RATE_LOW == 12                    \* percent
TAX_SCALE_RATE_HIGH == 32                   \* percent
TAX_REDUCTION_AMOUNT == PLN(3600)
LINEAR_TAX_RATE == 19                       \* percent

ZUS_RELIEF_MONTHS == 6
ZUS_RELIEF_MONTHLY == 0
ZUS_PREFERENTIAL_MONTHS == 24
ZUS_PREFERENTIAL_MONTHLY == Grosz(62649)
ZUS_FULL_MONTHLY == Grosz(186088)

MINIMUM_WAGE_2025 == PLN(4666)
HEALTH_INSURANCE_RATE_SCALE == 90           \* per mille
HEALTH_INSURANCE_RATE_LINEAR == 49          \* per mille
\* 4666 * 0.75 = 3499.50 and 3499.50 * 0.09 = 314.9550: both divisions are exact
HEALTH_INSURANCE_BASE_MIN_SCALE == (MINIMUM_WAGE_2025 * 75) \div 100
HEALTH_INSURANCE_MIN_MONTHLY_SCALE == (HEALTH_INSURANCE_BASE_MIN_SCALE * 9) \div 100
HEALTH_INSURANCE_BASE_MIN_LINEAR == (MINIMUM_WAGE_2025 * 75) \div 100
HEALTH_INSURANCE_MIN_MONTHLY_LINEAR == (HEALTH_INSURANCE_BASE_MIN_LINEAR * 9) \div 100
\* 8213.76 * 0.75 * 0.09 = 554.428800, kept as the numerator over 10^4 of a grosz
AVERAGE_SALARY_2025 == 821376               \* grosze
HEALTH_INSURANCE_MONTHLY_LUMP_SUM == AVERAGE_SALARY_2025 * 75 * 9

----------------------------------------------------------------------------
(* datetime.date and dateutil.relativedelta *)

Date(y, m, d) == [year |-> y, month |-> m, day |-> d]

\* the years a datetime.date can hold
MINYEAR == 1
MAXYEAR == 9999

\* date + relativedelta(months=i) for a first-of-month date and i >= 0
AddMonths(d, i) ==
    LET total == (d.month - 1) + i
    IN  Date(d.year + (total \div 12), (total % 12) + 1, d.day)

----------------------------------------------------------------------------
(* domain/zus.py *)

MonthsSinceStartIgnoringDay(start_date, current_date) ==
    (current_date.year - start_date.year) * 12
        + (current_date.month - start_date.month)

calculate_months_since_start(start_date, current_date) ==
    LET year_diff == current_date.year - start_date.year
        month_diff == current_date.month - start_date.month
        total_months == year_diff * 12 + month_diff
    IN  IF start_date.day > 1 THEN total_months - 1 ELSE total_months

StageWithInclusiveBounds(start_date, current_date) ==
    LET months_since_start == calculate_months_since_start(start_date, current_date)
    IN  IF months_since_start <= ZUS_RELIEF_MONTHS THEN "relief"
        ELSE IF months_since_start <= ZUS_RELIEF_MONTHS + ZUS_PREFERENTIAL_MONTHS
             THEN "preferential"
        ELSE "full"

determine_zus_stage(start_date, current_date) ==
    LET months_since_start == calculate_months_since_start(start_date, current_date)
    IN  IF months_since_start < ZUS_RELIEF_MONTHS THEN "relief"
        ELSE IF months_since_start < ZUS_RELIEF_MONTHS + ZUS_PREFERENTIAL_MONTHS
             THEN "preferential"
        ELSE "full"

calculate_zus_monthly(start_date, current_date) ==
    LET stage == determine_zus_stage(start_date, current_date)
    IN  IF stage = "relief" THEN ZUS_RELIEF_MONTHLY
        ELSE IF stage = "preferential" THEN ZUS_PREFERENTIAL_MONTHLY
        ELSE ZUS_FULL_MONTHLY

----------------------------------------------------------------------------
(* domain/health_insurance.py.  An income times a per-mille rate is kept in
   thousandths of a half-groszy, i.e. over 2000 of a grosz. *)

HealthScaleWithoutFloor(monthly_income) ==
    IF monthly_income <= 0 THEN HEALTH_INSURANCE_MIN_MONTHLY_SCALE
    ELSE Quantize(monthly_income * HEALTH_INSURANCE_RATE_SCALE, 2000)

calculate_health_insurance_monthly_scale(monthly_income) ==
    IF monthly_income <= 0 THEN HEALTH_INSURANCE_MIN_MONTHLY_SCALE
    ELSE LET calculated == monthly_income * HEALTH_INSURANCE_RATE_SCALE
             health_insurance ==
                 Max(calculated, HEALTH_INSURANCE_MIN_MONTHLY_SCALE * 1000)
         IN  Quantize(health_insurance, 2000)

HealthLinearAtScaleRate(monthly_income) ==
    IF monthly_income <= 0 THEN HEALTH_INSURANCE_MIN_MONTHLY_LINEAR
    ELSE LET calculated == monthly_income * HEALTH_INSURANCE_RATE_SCALE
             health_insurance ==
                 Max(calculated, HEALTH_INSURANCE_MIN_MONTHLY_LINEAR * 1000)
         IN  Quantize(health_insurance, 2000)

calculate_health_insurance_monthly_linear(monthly_income) ==
    IF monthly_income <= 0 THEN HEALTH_INSURANCE_MIN_MONTHLY_LINEAR
    ELSE LET calculated == monthly_income * HEALTH_INSURANCE_RATE_LINEAR
             health_insurance ==
                 Max(calculated, HEALTH_INSURANCE_MIN_MONTHLY_LINEAR * 1000)
         IN  Quantize(health_insurance, 2000)

calculate_health_insurance_monthly_lump_sum ==
    Quantize(HEALTH_INSURANCE_MONTHLY_LUMP_SUM, 10000)

----------------------------------------------------------------------------
(* domain/tax_scale.py and domain/linear_tax.py.  An income times a percent
   rate is kept in hundredths of a half-groszy, i.e. over 200 of a grosz. *)

\* the tax with the low rate applied to the whole income
ScaleTaxLowRateOnly(annual_income) ==
    IF annual_income <= 0 THEN 0
    ELSE Quantize(Max(0, annual_income * TAX_SCALE_RATE_LOW - TAX_REDUCTION_AMOUNT * 100),
                  200)

\* calculate_income_tax_scale, had the reduction been taken off in the high
\* bracket only
ScaleTaxReducedOnlyInHighBracket(annual_income) ==
    IF annual_income <= 0 THEN 0
    ELSE IF annual_income <= TAX_SCALE_THRESHOLD
    THEN Quantize(annual_income * TAX_SCALE_RATE_LOW, 200)
    ELSE Quantize(Max(0, TAX_SCALE_THRESHOLD * TAX_SCALE_RATE_LOW
                           + (annual_income - TAX_SCALE_THRESHOLD) * TAX_SCALE_RATE_HIGH
                           - TAX_REDUCTION_AMOUNT * 100), 200)

calculate_income_tax_scale(annual_income) ==
    IF annual_income <= 0 THEN 0
    ELSE LET tax_before_reduction ==
                 IF annual_income <= TAX_SCALE_THRESHOLD
                 THEN annual_income * TAX_SCALE_RATE_LOW
                 ELSE LET tax_first_bracket ==
                              TAX_SCALE_THRESHOLD * TAX_SCALE_RATE_LOW
                          tax_second_bracket ==
                              (annual_income - TAX_SCALE_THRESHOLD) * TAX_SCALE_RATE_HIGH
                      IN  tax_first_bracket + tax_second_bracket
             tax_after_reduction == tax_before_reduction - TAX_REDUCTION_AMOUNT * 100
             tax == Max(0, tax_after_reduction)
         IN  Quantize(tax, 200)

\* the advance with the reduction of all the months since the start of the year
MonthlyAdvanceScaleCumulative(monthly_income, months_count) ==
    IF monthly_income <= 0 THEN 0
    ELSE LET threshold_monthly == TAX_SCALE_THRESHOLD \div 12
             tax_before_reduction ==
                 IF monthly_income <= threshold_monthly
                 THEN monthly_income * TAX_SCALE_RATE_LOW
                 ELSE threshold_monthly * TAX_SCALE_RATE_LOW
                        + (monthly_income - threshold_monthly) * TAX_SCALE_RATE_HIGH
             reduction == (TAX_REDUCTION_AMOUNT \div 12) * months_count
         IN  Quantize(Max(0, tax_before_reduction - reduction * 100), 200)

\* 3600 / 12 = 300 and 120000 / 12 = 10000: both Decimal divisions are exact
calculate_monthly_tax_advance_scale(monthly_income, months_count) ==
    IF monthly_income <= 0 THEN 0
    ELSE LET monthly_reduction == TAX_REDUCTION_AMOUNT \div 12
             threshold_monthly == TAX_SCALE_THRESHOLD \div 12
             tax_before_reduction ==
                 IF monthly_income <= threshold_monthly
                 THEN monthly_income * TAX_SCALE_RATE_LOW
                 ELSE LET tax_first == threshold_monthly * TAX_SCALE_RATE_LOW
                          tax_second ==
                              (monthly_income - threshold_monthly) * TAX_SCALE_RATE_HIGH
                      IN  tax_first + tax_second
             tax == Max(0, tax_before_reduction - monthly_reduction * 100)
         IN  Quantize(tax, 200)

\* the flat-rate tax cut down to whole PLN
LinearTaxInWholePLN(annual_income) ==
    IF annual_income <= 0 THEN 0
    ELSE PLN((annual_income * LINEAR_TAX_RATE) \div 20000)

LinearTaxWithoutGuard(annual_income) ==
    Quantize(annual_income * LINEAR_TAX_RATE, 200)

calculate_income_tax_linear(annual_income) ==
    IF annual_income <= 0 THEN 0
    ELSE LET tax == annual_income * LINEAR_TAX_RATE
         IN  Quantize(tax, 200)

calculate_monthly_tax_advance_linear(monthly_income) ==
    IF monthly_income <= 0 THEN 0
    ELSE LET tax == monthly_income * LINEAR_TAX_RATE
         IN  Quantize(tax, 200)

----------------------------------------------------------------------------
(* domain/lump_sum.py.  A Dict[Decimal, Decimal] is the sequence of its items
   <<rate, revenue>> in insertion order, the rates distinct and in per mille;
   revenue times rate is over 2000 of a grosz. *)

\* the tax of every entry rounded to the grosz on its own before it is added
RECURSIVE TaxRoundedPerEntry(_)
TaxRoundedPerEntry(revenue_by_rate) ==
    IF revenue_by_rate = <<>> THEN 0
    ELSE LET last == revenue_by_rate[Len(revenue_by_rate)]
             rest == SubSeq(revenue_by_rate, 1, Len(revenue_by_rate) - 1)
         IN  TaxRoundedPerEntry(rest)
               + (IF last[2] > 0 THEN Quantize(last[2] * last[1], 2000) ELSE 0)

\* total_tax when a pass assigns the entry's tax instead of adding it
RECURSIVE TotalTaxOverwritten(_, _)
TotalTaxOverwritten(revenue_by_rate, n) ==
    IF n = 0 THEN 0
    ELSE LET rate == revenue_by_rate[n][1]
             revenue == revenue_by_rate[n][2]
             total_tax == TotalTaxOverwritten(revenue_by_rate, n - 1)
         IN  IF revenue > 0 THEN revenue * rate ELSE total_tax

\* total_tax after the first n passes of the loop over revenue_by_rate.items()
RECURSIVE TotalTaxAfter(_, _)
TotalTaxAfter(revenue_by_rate, n) ==
    IF n = 0 THEN 0
    ELSE LET rate == revenue_by_rate[n][1]
             revenue == revenue_by_rate[n][2]
             total_tax == TotalTaxAfter(revenue_by_rate, n - 1)
         IN  IF revenue > 0 THEN total_tax + revenue * rate ELSE total_tax

calculate_tax_lump_sum(revenue_by_rate) ==
    Quantize(TotalTaxAfter(revenue_by_rate, Len(revenue_by_rate)), 2000)

calculate_monthly_tax_lump_sum(monthly_revenue_by_rate) ==
    calculate_tax_lump_sum(monthly_revenue_by_rate)

----------------------------------------------------------------------------
(* services/time_utils.py.  A str is the sequence of its characters. *)

DigitChars == <<"0", "1", "2", "3", "4", "5", "6", "7", "8", "9">>

DigitValue(ch) == CHOOSE d \in 0..9 : DigitChars[d + 1] = ch

\* int(s) for a string of decimal digits
RECURSIVE ParseInt(_)
ParseInt(chars) ==
    IF chars = <<>> THEN 0
    ELSE 10 * ParseInt(SubSeq(chars, 1, Len(chars) - 1)) + DigitValue(chars[Len(chars)])

\* s.split("-") for a string with one "-"
SplitDash(chars) ==
    LET at == CHOOSE k \in 1..Len(chars) : chars[k] = "-"
    IN  <<SubSeq(chars, 1, at - 1), SubSeq(chars, at + 1, Len(chars))>>

\* the decimal digits of n, zero-padded to width (strftime %Y and %m)
ZeroPadded(n, width) ==
    [k \in 1..width |-> DigitChars[((n \div (10 ^ (width - k))) % 10) + 1]]

MonthsWithoutYearRollover(base, count) ==
    LET parts == SplitDash(base)
        start_date == Date(ParseInt(parts[1]), ParseInt(parts[2]), 1)
    IN  [k \in 1..count |->
            Date(start_date.year, ((start_date.month - 1 + (k - 1)) % 12) + 1, 1)]

\* date(year, month, 1) raises ValueError unless MINYEAR <= year <= MAXYEAR and
\* 1 <= month <= 12, and so does the addition of a relativedelta that leaves
\* the years of datetime.date
GenerateMonthsRaises(base, count) ==
    LET parts == SplitDash(base)
        year == ParseInt(parts[1])
        month == ParseInt(parts[2])
    IN  \/ year < MINYEAR \/ year > MAXYEAR \/ month < 1 \/ month > 12
        \/ count > 0 /\ AddMonths(Date(year, month, 1), count - 1).year > MAXYEAR

\* the list generate_months returns when no pass raises
generate_months(base, count) ==
    LET parts == SplitDash(base)
        year == ParseInt(parts[1])
        month == ParseInt(parts[2])
        start_date == Date(year, month, 1)
    IN  [k \in 1..count |-> AddMonths(start_date, k - 1)]

\* strftime("%Y-%m") with the year as 4 digits, which every C library gives for
\* the years from 1000 on
format_month(month_date) ==
    ZeroPadded(month_date.year, 4) \o <<"-">> \o ZeroPadded(month_date.month, 2)

\* the decimal digits of n without padding
RECURSIVE Digits(_)
Digits(n) ==
    IF n < 10 THEN <<DigitChars[n + 1]>>
    ELSE Digits(n \div 10) \o <<DigitChars[(n % 10) + 1]>>

\* strftime("%Y-%m") of a C library that does not pad %Y: '999-01' for the year
\* 999; the same string as format_month from the year 1000 on
format_month_unpadded(month_date) ==
    Digits(month_date.year) \o <<"-">> \o ZeroPadded(month_date.month, 2)

month_to_date(month_str) ==
    LET parts == SplitDash(month_str)
    IN  Date(ParseInt(parts[1]), ParseInt(parts[2]), 1)

----------------------------------------------------------------------------
(* api/calculator.py.  A Dict[int, Decimal] is the function from its keys to
   their values; a OneTimeCost is a record of month_index and amount. *)

\* the dict after the first n passes of a loop that keeps the last amount of a month
RECURSIVE ConvertedKeepingLast(_, _)
ConvertedKeepingLast(one_time_costs_input, n) ==
    IF n = 0 THEN <<>>
    ELSE LET converted == ConvertedKeepingLast(one_time_costs_input, n - 1)
             cost == one_time_costs_input[n]
         IN  IF cost.month_index \in DOMAIN converted
             THEN [converted EXCEPT ![cost.month_index] = cost.amount]
             ELSE converted @@ (cost.month_index :> cost.amount)

\* converted after the first n passes of the loop over one_time_costs_input
RECURSIVE ConvertedAfter(_, _)
ConvertedAfter(one_time_costs_input, n) ==
    IF n = 0 THEN <<>>
    ELSE LET converted == ConvertedAfter(one_time_costs_input, n - 1)
             cost == one_time_costs_input[n]
         IN  IF cost.month_index \in DOMAIN converted
             THEN [converted EXCEPT ![cost.month_index] = @ + cost.amount]
             ELSE converted @@ (cost.month_index :> cost.amount)

_convert_one_time_costs(one_time_costs_input) ==
    IF one_time_costs_input = <<>> THEN <<>>
    ELSE ConvertedAfter(one_time_costs_input, Len(one_time_costs_input))

\* s.split(".") for a string with one "."
SplitPoint(chars) ==
    LET at == CHOOSE k \in 1..Len(chars) : chars[k] = "."
    IN  <<SubSeq(chars, 1, at - 1), SubSeq(chars, at + 1, Len(chars))>>

\* Decimal(rate_str) for a rate string of at most 3 fractional digits, as the
\* number of thousandths: Decimals are equal, and equal as dictionary keys,
\* when their numeric values are
DecimalOfRate(rate_str) ==
    LET parts == SplitPoint(rate_str)
        thousandths == parts[2] \o [k \in 1..(3 - Len(parts[2])) |-> "0"]
    IN  1000 * ParseInt(parts[1]) + ParseInt(thousandths)

\* d[key] = value for a dict kept as the sequence of its items
DictSet(d, key, value) ==
    IF \E k \in DOMAIN d : d[k][1] = key
    THEN [k \in DOMAIN d |-> IF d[k][1] = key THEN <<key, value>> ELSE d[k]]
    ELSE Append(d, <<key, value>>)

\* revenues_by_rate after the first n passes of the loop over the items of
\* item.revenues_by_rate
RECURSIVE RevenuesByRateAfter(_, _)
RevenuesByRateAfter(items, n) ==
    IF n = 0 THEN <<>>
    ELSE DictSet(RevenuesByRateAfter(items, n - 1),
                 DecimalOfRate(items[n][1]), items[n][2])

\* result after the first n passes of the loop over lump_sum_revenues_input
RECURSIVE LumpSumConvertedAfter(_, _)
LumpSumConvertedAfter(lump_sum_revenues_input, n) ==
    IF n = 0 THEN [k \in 1..60 |-> <<>>]
    ELSE LET item == lump_sum_revenues_input[n]
             revenues_by_rate ==
                 RevenuesByRateAfter(item.revenues_by_rate, Len(item.revenues_by_rate))
         IN  [LumpSumConvertedAfter(lump_sum_revenues_input, n - 1)
                 EXCEPT ![item.month_index + 1] = revenues_by_rate]

_convert_lump_sum_revenues(lump_sum_revenues_input) ==
    LumpSumConvertedAfter(lump_sum_revenues_input, Len(lump_sum_revenues_input))

----------------------------------------------------------------------------
(* services/tax_calculator.py: TaxCalculator.  Month indices are those of the
   code, 0..59; element i of a list is element i + 1 of its sequence. *)

_calculate_monthly_costs(month_index) ==
    LET costs == monthly_costs[month_index + 1]
    IN  IF month_index \in DOMAIN one_time_costs
        THEN costs + one_time_costs[month_index]
        ELSE costs

\* the ZUS of each month taken from the month after it
ZusForMonthsShiftedByOne ==
    [k \in 1..Len(months) |->
        calculate_zus_monthly(business_start_date, AddMonths(months[k], 1))]

_calculate_zus_for_months ==
    [k \in 1..Len(months) |-> calculate_zus_monthly(business_start_date, months[k])]

\* seq[:count - 1]
PrefixOneShort(seq, count) ==
    SubSeq(seq, 1, IF count - 1 < Len(seq) THEN count - 1 ELSE Len(seq))

\* seq[:count]
Prefix(seq, count) ==
    SubSeq(seq, 1, IF count < Len(seq) THEN count ELSE Len(seq))

RECURSIVE SumTo(_, _)
SumTo(seq, n) == IF n = 0 THEN 0 ELSE seq[n] + SumTo(seq, n - 1)

\* sum(seq)
Sum(seq) == SumTo(seq, Len(seq))

\* _calculate_period_summary, had total_burden left the tax out
PeriodSummaryBurdenWithoutTax(label, months_count, monthly_data, monthly_tax, monthly_health, monthly_net) ==
    LET period_data == Prefix(monthly_data, months_count)
        total_zus == Sum([k \in DOMAIN period_data |-> period_data[k].zus])
        total_health == Sum(Prefix(monthly_health, months_count))
    IN  [label |-> label,
         months_count |-> months_count,
         revenue |-> Sum([k \in DOMAIN period_data |-> period_data[k].revenue]),
         costs |-> Sum([k \in DOMAIN period_data |-> period_data[k].costs]),
         income |-> Sum([k \in DOMAIN period_data |-> period_data[k].income]),
         zus |-> total_zus,
         tax |-> Sum(Prefix(monthly_tax, months_count)),
         health_insurance |-> total_health,
         total_contributions |-> total_zus + total_health,
         total_burden |-> total_zus + total_health,
         net_income |-> Sum(Prefix(monthly_net, months_count))]

_calculate_period_summary(label, months_count, monthly_data, monthly_tax, monthly_health, monthly_net) ==
    LET period_data == Prefix(monthly_data, months_count)
        period_tax == Prefix(monthly_tax, months_count)
        period_health == Prefix(monthly_health, months_count)
        period_net == Prefix(monthly_net, months_count)
        total_zus == Sum([k \in DOMAIN period_data |-> period_data[k].zus])
        total_tax == Sum(period_tax)
        total_health == Sum(period_health)
        total_contributions == total_zus + total_health
        total_burden == total_zus + total_health + total_tax
    IN  [label |-> label,
         months_count |-> months_count,
         revenue |-> Sum([k \in DOMAIN period_data |-> period_data[k].revenue]),
         costs |-> Sum([k \in DOMAIN period_data |-> period_data[k].costs]),
         income |-> Sum([k \in DOMAIN period_data |-> period_data[k].income]),
         zus |-> total_zus,
         tax |-> total_tax,
         health_insurance |-> total_health,
         total_contributions |-> total_contributions,
         total_burden |-> total_burden,
         net_income |-> Sum(period_net)]

\* the part common to the three calculate_* methods once the monthly lists are
\* built: the four period summaries and the TaxFormResult
TaxFormResult(form_name, monthly_data_list, monthly_tax_list, monthly_health_list, monthly_net_list) ==
    [kind |-> "TaxFormResult",
     form_name |-> form_name,
     monthly_data |-> monthly_data_list,
     monthly_tax |-> monthly_tax_list,
     monthly_health_insurance |-> monthly_health_list,
     monthly_net_income |-> monthly_net_list,
     summary_6_months |->
         _calculate_period_summary("Po 6 miesiacach (koniec ulgi ZUS)", 6,
             monthly_data_list, monthly_tax_list, monthly_health_list, monthly_net_list),
     summary_12_months |->
         _calculate_period_summary("Po 12 miesiacach (pierwszy rok)", 12,
             monthly_data_list, monthly_tax_list, monthly_health_list, monthly_net_list),
     summary_30_months |->
         _calculate_period_summary("Po 30 miesiacach (koniec preferencyjnego ZUS)", 30,
             monthly_data_list, monthly_tax_list, monthly_health_list, monthly_net_list),
     summary_60_months |->
         _calculate_period_summary("Po 60 miesiacach (5 lat)", 60,
             monthly_data_list, monthly_tax_list, monthly_health_list, monthly_net_list)]

MonthlyData(month, revenue, costs, income, zus) ==
    [month |-> month, revenue |-> revenue, costs |-> costs, income |-> income,
     zus |-> zus]

\* what one pass of the for loop of a calculate_* method appends to its lists
Appended(data, tax, health, net_income) ==
    [data |-> data, tax |-> tax, health |-> health, net_income |-> net_income]

\* the list a loop over range(count) builds by appending item[1], ..., item[count]
ListOf(item) == item \o <<>>

\* the loop body with a negative income reported as zero
ScaleMonthFlooringIncome(i, zus_list) ==
    LET month_date == months[i + 1]
        revenue == monthly_revenues[i + 1]
        costs == _calculate_monthly_costs(i)
        income == Max(0, revenue - costs)
        zus == zus_list[i + 1]
        tax == calculate_monthly_tax_advance_scale(income, 1)
        health == calculate_health_insurance_monthly_scale(income)
        net_income == income - zus - tax - health
    IN  Appended(MonthlyData(format_month(month_date), revenue, costs, income, zus),
                 tax, health, net_income)

\* the body of the for loop of calculate_tax_scale, for month index i
ScaleMonth(i, zus_list) ==
    LET month_date == months[i + 1]
        revenue == monthly_revenues[i + 1]
        costs == _calculate_monthly_costs(i)
        income == revenue - costs
        zus == zus_list[i + 1]
        tax == calculate_monthly_tax_advance_scale(income, 1)
        health == calculate_health_insurance_monthly_scale(income)
        net_income == income - zus - tax - health
    IN  Appended(MonthlyData(format_month(month_date), revenue, costs, income, zus),
                 tax, health, net_income)

\* the body of the for loop of calculate_linear_tax, for month index i
LinearMonth(i, zus_list) ==
    LET month_date == months[i + 1]
        revenue == monthly_revenues[i + 1]
        costs == _calculate_monthly_costs(i)
        income == revenue - costs
        zus == zus_list[i + 1]
        tax == calculate_monthly_tax_advance_linear(income)
        health == calculate_health_insurance_monthly_linear(income)
        net_income == income - zus - tax - health
    IN  Appended(MonthlyData(format_month(month_date), revenue, costs, income, zus),
                 tax, health, net_income)

\* the loop body with the revenue taken from monthly_revenues
LumpSumMonthFromMonthlyRevenues(i, zus_list) ==
    LET month_date == months[i + 1]
        revenue_by_rate ==
            IF i < Len(lump_sum_revenues) THEN lump_sum_revenues[i + 1] ELSE <<>>
        total_revenue == monthly_revenues[i + 1]
        costs == _calculate_monthly_costs(i)
        income == total_revenue - costs
        zus == zus_list[i + 1]
        tax == calculate_monthly_tax_lump_sum(revenue_by_rate)
        health == calculate_health_insurance_monthly_lump_sum
        net_income == income - zus - tax - health
    IN  Appended(MonthlyData(format_month(month_date), total_revenue, costs, income, zus),
                 tax, health, net_income)

\* the body of the for loop of calculate_lump_sum, for month index i
LumpSumMonth(i, zus_list) ==
    LET month_date == months[i + 1]
        revenue_by_rate ==
            IF i < Len(lump_sum_revenues) THEN lump_sum_revenues[i + 1] ELSE <<>>
        total_revenue == Sum([k \in DOMAIN revenue_by_rate |-> revenue_by_rate[k][2]])
        costs == _calculate_monthly_costs(i)
        income == total_revenue - costs
        zus == zus_list[i + 1]
        tax == calculate_monthly_tax_lump_sum(revenue_by_rate)
        health == calculate_health_insurance_monthly_lump_sum
        net_income == income - zus - tax - health
    IN  Appended(MonthlyData(format_month(month_date), total_revenue, costs, income, zus),
                 tax, health, net_income)

\* the lists after the loop and the result built from them
ResultOf(form_name, appended) ==
    TaxFormResult(form_name,
                  ListOf([k \in DOMAIN appended |-> appended[k].data]),
                  ListOf([k \in DOMAIN appended |-> appended[k].tax]),
                  ListOf([k \in DOMAIN appended |-> appended[k].health]),
                  ListOf([k \in DOMAIN appended |-> appended[k].net_income]))

tax_scale_result ==
    LET zus_list == ListOf(_calculate_zus_for_months)
    IN  ResultOf("tax_scale", ListOf([k \in 1..Len(months) |-> ScaleMonth(k - 1, zus_list)]))

linear_tax_result ==
    LET zus_list == ListOf(_calculate_zus_for_months)
    IN  ResultOf("linear_tax", ListOf([k \in 1..Len(months) |-> LinearMonth(k - 1, zus_list)]))

lump_sum_result ==
    LET zus_list == ListOf(_calculate_zus_for_months)
    IN  ResultOf("lump_sum", ListOf([k \in 1..Len(months) |-> LumpSumMonth(k - 1, zus_list)]))

\* the comparison that keeps the last of the regimes with the highest net income
ComparisonKeepingLastMax ==
    LET tax_scale == tax_scale_result
        linear_tax == linear_tax_result
        lump_sum == lump_sum_result
        best_form ==
            IF /\ lump_sum.summary_60_months.net_income
                    >= tax_scale.summary_60_months.net_income
               /\ lump_sum.summary_60_months.net_income
                    >= linear_tax.summary_60_months.net_income
            THEN "lump_sum"
            ELSE IF linear_tax.summary_60_months.net_income
                      >= tax_scale.summary_60_months.net_income
            THEN "linear_tax"
            ELSE "tax_scale"
    IN  [kind |-> "ComparisonResult",
         tax_scale |-> tax_scale,
         linear_tax |-> linear_tax,
         lump_sum |-> lump_sum,
         best_form |-> best_form]

\* max(net_incomes, key=net_incomes.get): the first key, in insertion order,
\* whose value no other key exceeds
comparison_result ==
    LET tax_scale == tax_scale_result
        linear_tax == linear_tax_result
        lump_sum == lump_sum_result
        order == <<"tax_scale", "linear_tax", "lump_sum">>
        net_incomes == [name \in {"tax_scale", "linear_tax", "lump_sum"} |->
                           IF name = "tax_scale"
                           THEN tax_scale.summary_60_months.net_income
                           ELSE IF name = "linear_tax"
                           THEN linear_tax.summary_60_months.net_income
                           ELSE lump_sum.summary_60_months.net_income]
        first_max == CHOOSE k \in 1..3 :
                         /\ \A j \in 1..3 : net_incomes[order[j]] <= net_incomes[order[k]]
                         /\ \A j \in 1..(k - 1) : net_incomes[order[j]] < net_incomes[order[k]]
    IN  [kind |-> "ComparisonResult",
         tax_scale |-> tax_scale,
         linear_tax |-> linear_tax,
         lump_sum |-> lump_sum,
         best_form |-> order[first_max]]

----------------------------------------------------------------------------
(* The calls of domain/zus.py: the two dates are drawn at Init from a few
   calendar years, and a call applies one function to them *)

Years == FirstYear .. (FirstYear + YearSpan - 1)
DaySamples == {1, 2, 15, 28}
Dates == {Date(y, m, d) : y \in Years, m \in 1..12, d \in DaySamples}

NoCalculator ==
    /\ base_month = <<>>
    /\ business_start_date = Date(0, 0, 0)
    /\ monthly_revenues = <<>>
    /\ monthly_costs = <<>>
    /\ one_time_costs = <<>>
    /\ lump_sum_revenues = <<>>
    /\ months = <<>>
    /\ result = [kind |-> "none"]

Idle == fn = "none" /\ ret = "none"

\* a call applies the function to the arguments drawn at Init and returns
Returns(name, value) ==
    /\ fn = "none"
    /\ fn' = name
    /\ ret' = value
    /\ UNCHANGED args
    /\ UNCHANGED calcVars

InitZus ==
    /\ Idle
    /\ args \in [start_date : Dates, current_date : Dates]
    /\ NoCalculator

CallMonthsSinceStart ==
    Returns("calculate_months_since_start",
            calculate_months_since_start(args.start_date, args.current_date))

CallDetermineZusStage ==
    Returns("determine_zus_stage",
            determine_zus_stage(args.start_date, args.current_date))

CallZusMonthly ==
    Returns("calculate_zus_monthly",
            calculate_zus_monthly(args.start_date, args.current_date))

NextZus ==
    \/ CallMonthsSinceStart
    \/ CallDetermineZusStage
    \/ CallZusMonthly

SpecZus == InitZus /\ [][NextZus]_vars

----------------------------------------------------------------------------
(* The calls of domain/health_insurance.py, domain/tax_scale.py and
   domain/linear_tax.py: the income is drawn at Init, densely around the
   incomes where a branch or the floor takes over and on a coarse grid *)

CoarseIncomes == {PLN(CoarseStepPLN * k) : k \in (0 - CoarseSteps) .. CoarseSteps}

Around(centres) ==
    {c + d : c \in centres, d \in (0 - FineSpread) .. FineSpread}

\* 0; 3499.50 = floor / 9%; 6427.65 ~ floor / 4.9%; 10000 = monthly threshold
MonthlyIncomesOfInterest == {0, Grosz(349950), Grosz(642765), PLN(10000)}
MonthlyIncomes == Around(MonthlyIncomesOfInterest) \cup CoarseIncomes

\* also 2500 and 30000 (the reduction is used up), 120000 = annual threshold,
\* 200000 and 300000 in the high bracket, 212307.69 where 32% above the threshold
\* catches up with 19% of everything
TaxIncomesOfInterest ==
    {0, PLN(2500), PLN(10000), PLN(30000), PLN(120000), PLN(200000),
     Grosz(21230769), PLN(300000)}
TaxIncomes == Around(TaxIncomesOfInterest) \cup CoarseIncomes

InitHealth ==
    /\ Idle
    /\ args \in [monthly_income : MonthlyIncomes]
    /\ NoCalculator

CallHealthScale ==
    Returns("calculate_health_insurance_monthly_scale",
            calculate_health_insurance_monthly_scale(args.monthly_income))

CallHealthLinear ==
    Returns("calculate_health_insurance_monthly_linear",
            calculate_health_insurance_monthly_linear(args.monthly_income))

CallHealthLumpSum ==
    Returns("calculate_health_insurance_monthly_lump_sum",
            calculate_health_insurance_monthly_lump_sum)

NextHealth ==
    \/ CallHealthScale
    \/ CallHealthLinear
    \/ CallHealthLumpSum

SpecHealth == InitHealth /\ [][NextHealth]_vars

InitTax ==
    /\ Idle
    /\ args \in [income : TaxIncomes, months_count : 1 .. MaxMonthsCount]
    /\ NoCalculator

CallIncomeTaxScale ==
    Returns("calculate_income_tax_scale", calculate_income_tax_scale(args.income))

CallMonthlyTaxAdvanceScale ==
    Returns("calculate_monthly_tax_advance_scale",
            calculate_monthly_tax_advance_scale(args.income, args.months_count))

CallIncomeTaxLinear ==
    Returns("calculate_income_tax_linear", calculate_income_tax_linear(args.income))

CallMonthlyTaxAdvanceLinear ==
    Returns("calculate_monthly_tax_advance_linear",
            calculate_monthly_tax_advance_linear(args.income))

NextTax ==
    \/ CallIncomeTaxScale
    \/ CallMonthlyTaxAdvanceScale
    \/ CallIncomeTaxLinear
    \/ CallMonthlyTaxAdvanceLinear

SpecTax == InitTax /\ [][NextTax]_vars

----------------------------------------------------------------------------
(* The calls of domain/lump_sum.py: the rate -> revenue mapping is drawn at
   Init, with revenues that are negative, zero, below a grosz of tax and large *)

RateSamples == {20, 55, 85}

RevenueSamples ==
    {0 - PLN(1000), 0 - 1, 0, 1, PLN(30000), PLN(50000)}
        \cup {Grosz(g) : g \in 1..LumpSpread}

\* the dicts of at most MaxEntries items: a dict holds a key once
Dicts ==
    UNION {{d \in [1..n -> RateSamples \X RevenueSamples] :
               \A i \in 1..n : \A j \in 1..n : i # j => d[i][1] # d[j][1]} :
           n \in 0..MaxEntries}

InitLumpSum ==
    /\ Idle
    /\ args \in [revenue_by_rate : Dicts]
    /\ NoCalculator

CallTaxLumpSum ==
    Returns("calculate_tax_lump_sum", calculate_tax_lump_sum(args.revenue_by_rate))

CallMonthlyTaxLumpSum ==
    Returns("calculate_monthly_tax_lump_sum",
            calculate_monthly_tax_lump_sum(args.revenue_by_rate))

NextLumpSum ==
    \/ CallTaxLumpSum
    \/ CallMonthlyTaxLumpSum

SpecLumpSum == InitLumpSum /\ [][NextLumpSum]_vars

----------------------------------------------------------------------------
(* The calls of services/time_utils.py: the base month is drawn at Init from
   the years of the dates above and from the first and the last years a date
   can hold; a call generates the 60 months, formats them, or formats them and
   parses the labels back.  Whether %Y pads a year below 1000 depends on the C
   library, so a formatting call takes either outcome. *)

EdgeYears == {0, 1, 999, 9994, 9995, 9999}

MonthStrings ==
    {ZeroPadded(y, 4) \o <<"-">> \o ZeroPadded(m, 2) : y \in Years \cup EdgeYears, m \in 1..12}

InitMonths ==
    /\ Idle
    /\ args \in [base_month : MonthStrings]
    /\ NoCalculator

\* [format_month(d) for d in generate_months(base_month, 60)]
LabelsOf(generated, padded) ==
    [k \in DOMAIN generated |->
        IF padded THEN format_month(generated[k]) ELSE format_month_unpadded(generated[k])]

\* what a call leaves: the value it returned, or the exception it raised
Returned(value) == [raised |-> "none", value |-> value]
RaisedError(name) == [raised |-> name, value |-> <<>>]

CallGenerateMonths ==
    Returns("generate_months",
            IF GenerateMonthsRaises(args.base_month, 60) THEN RaisedError("ValueError")
            ELSE Returned(generate_months(args.base_month, 60)))

CallFormatMonth ==
    \E padded \in BOOLEAN :
        Returns("format_month",
                IF GenerateMonthsRaises(args.base_month, 60) THEN RaisedError("ValueError")
                ELSE Returned(LabelsOf(generate_months(args.base_month, 60), padded)))

CallMonthToDate ==
    \E padded \in BOOLEAN :
        Returns("month_to_date",
                IF GenerateMonthsRaises(args.base_month, 60) THEN RaisedError("ValueError")
                ELSE LET labels == LabelsOf(generate_months(args.base_month, 60), padded)
                     IN  Returned([labels |-> labels,
                                   dates |-> [k \in DOMAIN labels |->
                                                 month_to_date(labels[k])]]))

NextMonths ==
    \/ CallGenerateMonths
    \/ CallFormatMonth
    \/ CallMonthToDate

SpecMonths == InitMonths /\ [][NextMonths]_vars

----------------------------------------------------------------------------
(* The TaxCalculator: Init is the state __init__ leaves, for a base month, a
   business start date and monthly amounts drawn from the sets below; each
   method is an action that leaves what it returns in result. *)

\* base months at the start, in the middle and at the end of a calendar year
BaseMonths ==
    {ZeroPadded(FirstYear + 3, 4) \o <<"-">> \o ZeroPadded(m, 2) : m \in {1, 6, 12}}

\* businesses begun on the 1st and in the middle of any month of the years drawn
StartDates == {d \in Dates : d.day \in {1, 15}}

\* 60 equal revenues and costs, no one-time costs, no lump-sum revenues
FlatInputs ==
    [monthly_revenues |-> [k \in 1..60 |-> PLN(50000)],
     monthly_costs |-> [k \in 1..60 |-> PLN(5000)],
     one_time_costs |-> <<>>,
     lump_sum_revenues |-> <<>>]

\* revenues growing month by month from below the costs to the high bracket,
\* one-time costs in month 0 (two of them) and month 12, lump-sum revenues at
\* two rates for 48 months, the mapping of month 5 empty
GrowingInputs ==
    [monthly_revenues |-> [k \in 1..60 |-> PLN(3000 + 250 * k)],
     monthly_costs |-> [k \in 1..60 |-> PLN(4000)],
     one_time_costs |-> << [month_index |-> 0, amount |-> PLN(6000)],
                           [month_index |-> 12, amount |-> PLN(5000)],
                           [month_index |-> 0, amount |-> PLN(4000)] >>,
     lump_sum_revenues |->
         [k \in 1..48 |-> IF k = 6 THEN <<>>
                          ELSE << <<55, PLN(3000 + 250 * k)>>, <<85, PLN(1000)>> >>]]

\* no revenue and no cost at all
ZeroInputs ==
    [monthly_revenues |-> [k \in 1..60 |-> 0],
     monthly_costs |-> [k \in 1..60 |-> 0],
     one_time_costs |-> <<>>,
     lump_sum_revenues |-> <<>>]

MoneyInputs == {FlatInputs, GrowingInputs, ZeroInputs}

\* the start dates a money input is combined with
StartDatesFor(money) ==
    IF money = ZeroInputs THEN {d \in StartDates : d.month = 1 /\ d.day = 1}
    ELSE StartDates

Init ==
    /\ fn = "none"
    /\ ret = "none"
    /\ \E base \in BaseMonths, money \in MoneyInputs :
        \E start \in StartDatesFor(money) :
          /\ args = [one_time_costs |-> money.one_time_costs]
          /\ base_month = base
          /\ business_start_date = start
          /\ monthly_revenues = money.monthly_revenues
          /\ monthly_costs = money.monthly_costs
          /\ one_time_costs = _convert_one_time_costs(money.one_time_costs)
          /\ lump_sum_revenues = money.lump_sum_revenues
          /\ months = generate_months(base, 60)
    /\ result = [kind |-> "none"]

calculatorFields == <<base_month, business_start_date, monthly_revenues, monthly_costs,
                      one_time_costs, lump_sum_revenues, months>>

calculate_tax_scale ==
    /\ result' = tax_scale_result
    /\ UNCHANGED <<callVars, calculatorFields>>

calculate_linear_tax ==
    /\ result' = linear_tax_result
    /\ UNCHANGED <<callVars, calculatorFields>>

calculate_lump_sum ==
    /\ result' = lump_sum_result
    /\ UNCHANGED <<callVars, calculatorFields>>

\* compare_all_forms, had _calculate_monthly_costs added the one-time costs to
\* self.monthly_costs in place
CompareAllFormsAddingCostsInPlace ==
    /\ result' = comparison_result
    /\ monthly_costs' = [k \in DOMAIN monthly_costs |-> _calculate_monthly_costs(k - 1)]
    /\ UNCHANGED <<callVars, base_month, business_start_date, monthly_revenues,
                   one_time_costs, lump_sum_revenues, months>>

compare_all_forms ==
    /\ result' = comparison_result
    /\ UNCHANGED <<callVars, calculatorFields>>

Next ==
    \/ calculate_tax_scale
    \/ calculate_linear_tax
    \/ calculate_lump_sum
    \/ compare_all_forms

Spec == Init /\ [][Next]_vars

----------------------------------------------------------------------------
(* The endpoint of api/calculator.py: Init holds a request that passed the
   validation of schemas/requests.py; calculate_taxes converts its lump-sum
   revenues and one-time costs and constructs the TaxCalculator, then compares
   the forms; fn is the handler's position ("TaxCalculator" once the calculator
   is constructed, "calculate_taxes" once the handler has ended), and any
   exception ends it with an HTTPException. *)

\* years whose base months match ^\d{4}-(0[1-9]|1[0-2])$: the first and the last
\* ones four digits can spell, the last one with 60 months ahead, an ordinary one
RequestYears == {0, 1, FirstYear + 3, 9995, 9999}

RequestBaseMonths ==
    {ZeroPadded(y, 4) \o <<"-">> \o ZeroPadded(m, 2) : y \in RequestYears, m \in {1, 12}}

RequestStartDates == {Date(FirstYear + 3, 1, 1), Date(FirstYear + 2, 6, 15)}

Rate055 == <<"0", ".", "0", "5", "5">>
Rate085 == <<"0", ".", "0", "8", "5">>
Rate1 == <<"0", ".", "1">>
Rate10 == <<"0", ".", "1", "0">>

\* one entry for each month index 0..59, two rates each
LumpSumEachMonthOnce ==
    [k \in 1..60 |->
        [month_index |-> k - 1,
         revenues_by_rate |-> << <<Rate055, PLN(3000 + 250 * k)>>, <<Rate085, PLN(1000)>> >>]]

\* 60 entries, the first two of them for month index 0 and none for month index 1
LumpSumMonthTwice ==
    [LumpSumEachMonthOnce EXCEPT ![2].month_index = 0]

\* 60 entries, the first one with the rate 10% spelt "0.1" and "0.10"
LumpSumSameRateTwice ==
    [LumpSumEachMonthOnce EXCEPT
        ![1].revenues_by_rate = << <<Rate1, PLN(2000)>>, <<Rate10, PLN(3000)>> >>]

\* lump_sum_revenues of a request: None, or a list of exactly 60 entries
RequestLumpSums == {<<>>, LumpSumEachMonthOnce, LumpSumMonthTwice, LumpSumSameRateTwice}

Requests ==
    {[base_month |-> base,
      business_start_date |-> start,
      monthly_revenues |-> money.monthly_revenues,
      monthly_costs |-> money.monthly_costs,
      one_time_costs |-> money.one_time_costs,
      lump_sum_revenues |-> lump] :
        base \in RequestBaseMonths, start \in RequestStartDates,
        money \in {FlatInputs, GrowingInputs}, lump \in RequestLumpSums}

InitRequest ==
    /\ Idle
    /\ args \in Requests
    /\ NoCalculator

Call_convert_lump_sum_revenues ==
    Returns("_convert_lump_sum_revenues",
            Returned(_convert_lump_sum_revenues(args.lump_sum_revenues)))

\* lines 212-225 of calculate_taxes: the conversions and TaxCalculator(...); an
\* exception of generate_months in __init__ reaches the except clause, which
\* ends the handler with an HTTPException
calculate_taxes_construct ==
    /\ fn = "none"
    /\ UNCHANGED args
    /\ IF GenerateMonthsRaises(args.base_month, 60)
       THEN /\ fn' = "calculate_taxes"
            /\ ret' = RaisedError("HTTPException")
            /\ UNCHANGED calcVars
       ELSE /\ fn' = "TaxCalculator"
            /\ ret' = Returned("calculator")
            /\ base_month' = args.base_month
            /\ business_start_date' = args.business_start_date
            /\ monthly_revenues' = args.monthly_revenues
            /\ monthly_costs' = args.monthly_costs
            /\ one_time_costs' = _convert_one_time_costs(args.one_time_costs)
            /\ lump_sum_revenues' = _convert_lump_sum_revenues(args.lump_sum_revenues)
            /\ months' = generate_months(args.base_month, 60)
            /\ UNCHANGED result

\* lines 228-255 of calculate_taxes: compare_all_forms on the calculator just
\* constructed, and the response made of the comparison
calculate_taxes_compare ==
    /\ fn = "TaxCalculator"
    /\ fn' = "calculate_taxes"
    /\ result' = comparison_result
    /\ ret' = Returned(result'.best_form)
    /\ UNCHANGED <<args, calculatorFields>>

NextRequest ==
    \/ Call_convert_lump_sum_revenues
    \/ calculate_taxes_construct
    \/ calculate_taxes_compare

SpecRequest == InitRequest /\ [][NextRequest]_vars

----------------------------------------------------------------------------
(* Properties of domain/zus.py, checked under SpecZus *)

ElapsedMonths == calculate_months_since_start(args.start_date, args.current_date)

C2_StartMonthIsMonthZero ==
    fn = "calculate_months_since_start" =>
        ret = (args.current_date.year - args.start_date.year) * 12
                + (args.current_date.month - args.start_date.month)

SameCalendarMonth(a, b) == a.year = b.year /\ a.month = b.month

----------------------------------------------------------------------------
(* Properties of the 60-month projections of services/tax_calculator.py,
   checked under Spec *)

\* the projections the last call returned: one for a calculate_* method, the
\* three regimes' projections for compare_all_forms
Projections ==
    IF result.kind = "TaxFormResult" THEN {result}
    ELSE IF result.kind = "ComparisonResult"
    THEN {result.tax_scale, result.linear_tax, result.lump_sum}
    ELSE {}

StageRank(stage) ==
    IF stage = "relief" THEN 0 ELSE IF stage = "preferential" THEN 1 ELSE 2

StageOfMonth(k) == determine_zus_stage(business_start_date, months[k])

\* C4: for any business start date and base month, walking the 60 generated
\* months in order the ZUS stage never regresses (relief, then preferential,
\* then full) and the monthly ZUS amount of every projection is non-decreasing.
C4_ZusNeverRegresses ==
    LET rank == ListOf([k \in 1..60 |-> StageRank(StageOfMonth(k))])
    IN  \A p \in Projections :
            \A i \in 1..60 : \A j \in i..60 :
                /\ rank[i] <= rank[j]
                /\ p.monthly_data[i].zus <= p.monthly_data[j].zus

C4_Witness ==
    /\ result.kind = "ComparisonResult"
    /\ months[1].month > 1
    /\ StageOfMonth(1) = "relief"
    /\ \E k \in 2..59 : StageOfMonth(k) = "preferential"
    /\ StageOfMonth(60) = "full"
    /\ result.linear_tax.monthly_data[1].zus < result.linear_tax.monthly_data[60].zus

StartsOnFirstDayOfBaseMonth == business_start_date = months[1]

C6_CutPointsAreStageBoundaries ==
    \A p \in Projections :
        /\ p.summary_6_months.label = "Po 6 miesiacach (koniec ulgi ZUS)"
        /\ p.summary_30_months.label = "Po 30 miesiacach (koniec preferencyjnego ZUS)"
        /\ StageOfMonth(6) = "relief" /\ p.monthly_data[6].zus = 0
        /\ StageOfMonth(7) = "preferential" /\ p.monthly_data[7].zus = Grosz(62649)
        /\ StageOfMonth(30) = "preferential" /\ p.monthly_data[30].zus = Grosz(62649)
        /\ StageOfMonth(31) = "full" /\ p.monthly_data[31].zus = Grosz(186088)

\* the sum of the amounts of the one-time-cost entries of the request that name
\* month index i
RECURSIVE OneTimeCostsNaming(_, _)
OneTimeCostsNaming(i, n) ==
    IF n = 0 THEN 0
    ELSE OneTimeCostsNaming(i, n - 1)
           + (IF args.one_time_costs[n].month_index = i
              THEN args.one_time_costs[n].amount ELSE 0)

\* C16: for every month index i the cost used by every regime's projection is
\* monthly_costs[i] plus the sum of the amounts of all one-time-cost entries
\* naming index i (several entries for one index add up, an index with no entry
\* adds 0), so a one-time cost never changes the cost of any other month.
C16_OneTimeCostsAddUpPerMonth ==
    \A p \in Projections : \A i \in 0..59 :
        p.monthly_data[i + 1].costs =
            monthly_costs[i + 1] + OneTimeCostsNaming(i, Len(args.one_time_costs))

C16_Witness ==
    /\ result.kind = "ComparisonResult"
    /\ Cardinality({n \in DOMAIN args.one_time_costs :
                       args.one_time_costs[n].month_index = 0}) = 2
    /\ result.lump_sum.monthly_data[1].costs = monthly_costs[1] + PLN(6000) + PLN(4000)
    /\ result.lump_sum.monthly_data[2].costs = monthly_costs[2]
    /\ result.tax_scale.monthly_data[13].costs = monthly_costs[13] + PLN(5000)

\* C17: in every regime's projection and for every month i,
\* income[i] = revenue[i] - costs[i] (reported as it is when negative, never
\* floored to zero) and net_income[i] = income[i] - zus[i] - tax[i] - health[i].
C17_IncomeAndNetIncomeIdentities ==
    \A p \in Projections : \A k \in 1..60 :
        LET data == p.monthly_data[k]
        IN  /\ data.income = data.revenue - data.costs
            /\ p.monthly_net_income[k] =
                   data.income - data.zus - p.monthly_tax[k]
                       - p.monthly_health_insurance[k]

C17_Witness ==
    /\ result.kind = "ComparisonResult"
    /\ \A name \in {"tax_scale", "linear_tax", "lump_sum"} :
          /\ result[name].monthly_data[1].income < 0
          /\ result[name].monthly_net_income[1] < result[name].monthly_data[1].income
    /\ result.tax_scale.monthly_tax[60] > 0
    /\ result.tax_scale.monthly_data[60].zus > 0

----------------------------------------------------------------------------
(* Properties of domain/health_insurance.py, checked under SpecHealth *)

IncomeBasedHealth ==
    {"calculate_health_insurance_monthly_scale",
     "calculate_health_insurance_monthly_linear"}

\* C7: for every monthly income (positive, zero or negative) the scale and the
\* linear health contribution are not below the floor 4666 x 0.75 x 0.09.
\* (ret * 50 and 4666 * 75 * 9 are both in ten-thousandths of a PLN.)
C7_HealthNeverBelowFloor ==
    fn \in IncomeBasedHealth => ret * 50 >= 4666 * 75 * 9

C7_Witness ==
    /\ fn = "calculate_health_insurance_monthly_scale"
    /\ args.monthly_income < 0
    /\ ret * 50 = 4666 * 75 * 9

\* income x rate and the floor 314.955, both in thousandths of a half-groszy
ExactHealth ==
    LET rate == IF fn = "calculate_health_insurance_monthly_scale" THEN 90 ELSE 49
    IN  Max(args.monthly_income * rate, 62991 * 1000)

\* C8 as stated: the monthly health contribution equals max(income x rate, floor)
\* with rate 9% (scale) and 4.9% (linear) and the same floor, and for
\* income <= 0 it is the floor itself.
C8_HealthIsExactMax ==
    fn \in IncomeBasedHealth =>
        /\ ret * 1000 = ExactHealth
        /\ args.monthly_income <= 0 => ret = 62991

\* C8 as amended: for income > 0 the contribution is max(income x rate, floor)
\* rounded to the grosz, a tie going to the even grosz; for income <= 0 it is
\* the floor 314.955 itself, not rounded.
C8_HealthIsRoundedMax ==
    fn \in IncomeBasedHealth =>
        LET off == ret * 1000 - ExactHealth
        IN  /\ args.monthly_income > 0 =>
                  /\ ret % 2 = 0
                  /\ 0 - 1000 <= off /\ off <= 1000
                  /\ off \in {0 - 1000, 1000} => (ret \div 2) % 2 = 0
            /\ args.monthly_income <= 0 => ret = 62991

C8_Witness ==
    /\ fn = "calculate_health_insurance_monthly_scale"
    /\ args.monthly_income > 0
    /\ args.monthly_income * 90 > 62991 * 1000
    /\ ret * 1000 - ExactHealth \in {0 - 1000, 1000}

\* C9: every health-contribution function returns a value rounded to exactly
\* 2 decimal places (a whole number of grosze) for every input, monthly
\* income <= 0 included.
C9_HealthHasTwoDecimals ==
    fn \in IncomeBasedHealth \cup {"calculate_health_insurance_monthly_lump_sum"}
        => ret % 2 = 0

----------------------------------------------------------------------------
(* Properties of domain/tax_scale.py and domain/linear_tax.py, under SpecTax *)

IncomeTaxes ==
    {"calculate_income_tax_scale", "calculate_monthly_tax_advance_scale",
     "calculate_income_tax_linear", "calculate_monthly_tax_advance_linear"}

\* C10: for every income I <= 0 each income-based tax function (annual and
\* monthly, scale and linear) returns 0.
C10_NoTaxOnNonPositiveIncome ==
    (fn \in IncomeTaxes /\ args.income <= 0) => ret = 0

C10_Witness ==
    /\ fn = "calculate_income_tax_linear"
    /\ args.income < 0
    /\ ret = 0

\* value, in half-grosze, is exact (in 1/scale of a half-groszy) rounded to a
\* whole number of grosze, a tie going to the even grosz
IsRoundedTo2(value, exact, scale) ==
    LET off == value * scale - exact
    IN  /\ value % 2 = 0
        /\ 0 - scale <= off /\ off <= scale
        /\ off \in {0 - scale, scale} => (value \div 2) % 2 = 0

\* max(0, base - reduction) in hundredths of a half-groszy, where base is 12% of
\* the income up to the threshold T and 12% of T plus 32% of the rest above it
ScaleTaxExact(I, T, reduction) ==
    LET base == IF I <= T THEN I * 12 ELSE T * 12 + (I - T) * 32
    IN  IF base - reduction * 100 > 0 THEN base - reduction * 100 ELSE 0

C12_ScaleDominatesLinearInHighBracket ==
    (fn = "calculate_income_tax_scale" /\ args.income > PLN(120000)) =>
        ret >= calculate_income_tax_linear(args.income)

\* C12 as amended: the progressive-scale tax is greater than or equal to the
\* flat-rate tax for every annual income at or above the crossover
\* 27600 / 0.13 ~ 212307.69, where 10800 + 32% of (I - 120000) reaches 19% of I,
\* i.e. where 13 x I >= 2760000.
C12_ScaleDominatesLinearAboveCrossover ==
    (fn = "calculate_income_tax_scale" /\ args.income * 13 >= PLN(2760000)) =>
        ret >= calculate_income_tax_linear(args.income)

C12_Witness ==
    /\ fn = "calculate_income_tax_scale"
    /\ args.income * 13 >= PLN(2760000)
    /\ args.income * 13 < PLN(2760000) + 13
    /\ ret = calculate_income_tax_linear(args.income)
    /\ ret > 0

\* the monthly incomes of at most 2 fractional digits whose 12-fold is drawn too
TwoDecimalMonthlyIncome ==
    /\ fn = "calculate_monthly_tax_advance_linear"
    /\ args.income % 2 = 0
    /\ args.income <= PLN(MaxMonthlyPLN)

\* C13 as stated: for every monthly income m (a money amount of at most 2
\* fractional digits) 12 x calculate_monthly_tax_advance_linear(m) equals
\* calculate_income_tax_linear(12 x m).
C13_TwelveAdvancesEqualAnnualTax ==
    TwoDecimalMonthlyIncome =>
        12 * ret = calculate_income_tax_linear(12 * args.income)

\* C13 as amended: 12 x the monthly advance differs from the annual tax on
\* 12 x m by at most 0.06 PLN (each advance is rounded to the grosz on its
\* own), and the two are equal whenever 19% of m is a whole number of grosze,
\* as it is for every m in whole PLN.
C13_TwelveAdvancesNearAnnualTax ==
    TwoDecimalMonthlyIncome =>
        LET annual == calculate_income_tax_linear(12 * args.income)
        IN  /\ 12 * ret - annual <= Grosz(6)
            /\ annual - 12 * ret <= Grosz(6)
            /\ (args.income > 0 /\ (args.income * 19) % 200 = 0) => 12 * ret = annual
            /\ args.income <= 0 => (ret = 0 /\ annual = 0)

C13_Witness ==
    /\ TwoDecimalMonthlyIncome
    /\ args.income = PLN(10000)
    /\ ret = PLN(1900)
    /\ calculate_income_tax_linear(12 * args.income) = PLN(22800)

----------------------------------------------------------------------------
(* Properties of domain/lump_sum.py, checked under SpecLumpSum *)

LumpSumTaxes == {"calculate_tax_lump_sum", "calculate_monthly_tax_lump_sum"}

RECURSIVE SumOverSet(_, _)
SumOverSet(f, S) ==
    IF S = {} THEN 0
    ELSE LET x == CHOOSE y \in S : TRUE
         IN  f[x] + SumOverSet(f, S \ {x})

\* the sum of revenue x rate over the entries of d with revenue > 0, in
\* thousandths of a half-groszy
TaxOfPositiveEntries(d) ==
    LET positive == {k \in DOMAIN d : d[k][2] > 0}
    IN  SumOverSet([k \in positive |-> d[k][2] * d[k][1]], positive)

\* C14: for every rate -> revenue mapping calculate_tax_lump_sum returns the sum
\* of revenue x rate over exactly the entries with revenue > 0, rounded to 2
\* decimals; entries with zero or negative revenue add nothing and the empty
\* mapping gives 0.00 ({0.055: 50000, 0.085: 30000} gives 5300.00).
C14_LumpSumTaxIsRoundedSumOfPositiveEntries ==
    fn \in LumpSumTaxes =>
        LET d == args.revenue_by_rate
        IN  /\ IsRoundedTo2(ret, TaxOfPositiveEntries(d), 1000)
            /\ (\A k \in DOMAIN d : d[k][2] <= 0) => ret = 0
            /\ d = << <<55, PLN(50000)>>, <<85, PLN(30000)>> >> => ret = PLN(5300)

C14_Witness ==
    /\ fn = "calculate_tax_lump_sum"
    /\ Len(args.revenue_by_rate) = 2
    /\ args.revenue_by_rate[1][2] < 0
    /\ args.revenue_by_rate[2] = <<85, PLN(30000)>>
    /\ ret = PLN(2550)

\* a call of calculate_tax_lump_sum on a mapping {r1: a, r2: b} of two entries
TwoEntryCall == fn = "calculate_tax_lump_sum" /\ Len(args.revenue_by_rate) = 2

\* tax({r1: a}) + tax({r2: b}) for the two entries of the mapping
SumOfSingleEntryTaxes ==
    calculate_tax_lump_sum(<<args.revenue_by_rate[1]>>)
        + calculate_tax_lump_sum(<<args.revenue_by_rate[2]>>)

\* the tax of the same two entries inserted in the other order
TaxInReverseOrder ==
    calculate_tax_lump_sum(<<args.revenue_by_rate[2], args.revenue_by_rate[1]>>)

\* C15 as stated: for all distinct rates r1, r2 and all revenues a, b,
\* tax({r1: a, r2: b}) = tax({r1: a}) + tax({r2: b}), and the result does not
\* depend on the insertion order of the entries.
C15_LumpSumTaxIsAdditive ==
    TwoEntryCall => (ret = SumOfSingleEntryTaxes /\ ret = TaxInReverseOrder)

\* C15 as amended: tax({r1: a, r2: b}) differs from tax({r1: a}) + tax({r2: b})
\* by at most 0.01 PLN (the sum is rounded once, each single tax on its own) and
\* equals it whenever every a x r1 and b x r2 that counts (revenue > 0) is a
\* whole number of grosze; the result does not depend on the insertion order.
C15_LumpSumTaxIsAdditiveUpToRounding ==
    TwoEntryCall =>
        LET d == args.revenue_by_rate
            whole == \A k \in 1..2 : d[k][2] > 0 => (d[k][2] * d[k][1]) % 2000 = 0
        IN  /\ ret - SumOfSingleEntryTaxes <= Grosz(1)
            /\ SumOfSingleEntryTaxes - ret <= Grosz(1)
            /\ whole => ret = SumOfSingleEntryTaxes
            /\ ret = TaxInReverseOrder

C15_Witness ==
    /\ TwoEntryCall
    /\ args.revenue_by_rate = << <<85, PLN(30000)>>, <<55, PLN(50000)>> >>
    /\ ret = PLN(2550) + PLN(2750)
    /\ TaxInReverseOrder = PLN(5300)

----------------------------------------------------------------------------
(* Properties of TaxCalculator.calculate_lump_sum, checked under Spec *)

LumpSumProjections == {p \in Projections : p.form_name = "lump_sum"}

\* the rate -> revenue mapping supplied for month index i, empty beyond the list
MappingOfMonth(i) ==
    IF i < Len(lump_sum_revenues) THEN lump_sum_revenues[i + 1] ELSE <<>>

\* C18: in the lump-sum projection the revenue of month i is the sum of that
\* month's rate -> revenue mapping, 0 when the mapping is empty or the month
\* lies beyond the supplied list (monthly_revenues is not used); the tax is
\* computed from the per-rate revenue, and the month's costs are still
\* subtracted to obtain income and net income.
C18_LumpSumRevenueFromMapping ==
    \A p \in LumpSumProjections : \A i \in 0..59 :
        LET d == MappingOfMonth(i)
            data == p.monthly_data[i + 1]
        IN  /\ data.revenue = SumOverSet([k \in DOMAIN d |-> d[k][2]], DOMAIN d)
            /\ d = <<>> => (data.revenue = 0 /\ p.monthly_tax[i + 1] = 0)
            /\ IsRoundedTo2(p.monthly_tax[i + 1], TaxOfPositiveEntries(d), 1000)
            /\ data.income = data.revenue - data.costs
            /\ p.monthly_net_income[i + 1] + p.monthly_tax[i + 1]
                   + p.monthly_health_insurance[i + 1] + data.zus
                 = data.revenue - data.costs

C18_Witness ==
    /\ result.kind = "TaxFormResult"
    /\ result.form_name = "lump_sum"
    /\ Len(lump_sum_revenues) = 48
    /\ lump_sum_revenues[6] = <<>>
    /\ result.monthly_data[6].revenue = 0
    /\ result.monthly_data[49].revenue = 0
    /\ result.monthly_data[49].income = 0 - monthly_costs[49]
    /\ result.monthly_data[1].revenue = PLN(4250)
    /\ monthly_revenues[1] = PLN(3250)
    /\ result.monthly_tax[1] = Grosz(26375)

----------------------------------------------------------------------------
(* Properties of the period summaries and of compare_all_forms, under Spec *)

\* series[1] + ... + series[k]
SumOfFirst(series, k) == SumOverSet([n \in 1..k |-> series[n]], 1..k)

SummaryOf(p, k) ==
    IF k = 6 THEN p.summary_6_months
    ELSE IF k = 12 THEN p.summary_12_months
    ELSE IF k = 30 THEN p.summary_30_months
    ELSE p.summary_60_months

\* C19: for each regime and each k in {6, 12, 30, 60} every summed field of the
\* k-month summary (revenue, costs, income, zus, tax, health_insurance,
\* net_income) equals the exact sum of the first k monthly values of that
\* series; the 60-month net income is the sum of all 60 monthly net incomes.
C19_SummariesAreExactSums ==
    \A p \in Projections : \A k \in {6, 12, 30, 60} :
        LET summary == SummaryOf(p, k)
            data == p.monthly_data
        IN  /\ summary.months_count = k
            /\ summary.revenue = SumOfFirst([n \in 1..60 |-> data[n].revenue], k)
            /\ summary.costs = SumOfFirst([n \in 1..60 |-> data[n].costs], k)
            /\ summary.income = SumOfFirst([n \in 1..60 |-> data[n].income], k)
            /\ summary.zus = SumOfFirst([n \in 1..60 |-> data[n].zus], k)
            /\ summary.tax = SumOfFirst(p.monthly_tax, k)
            /\ summary.health_insurance = SumOfFirst(p.monthly_health_insurance, k)
            /\ summary.net_income = SumOfFirst(p.monthly_net_income, k)

C19_Witness ==
    /\ result.kind = "TaxFormResult"
    /\ result.form_name = "linear_tax"
    /\ result.summary_6_months.revenue = PLN(6 * 50000)
    /\ result.summary_12_months.tax = 12 * PLN(8550)
    /\ result.summary_30_months.costs = PLN(30 * 5000)
    /\ result.summary_60_months.net_income = SumOfFirst(result.monthly_net_income, 60)
    /\ result.summary_60_months.net_income > result.summary_30_months.net_income

\* the regimes in the order compare_all_forms lists them
FormOrder == <<"tax_scale", "linear_tax", "lump_sum">>

\* the 60-month net income of the k-th regime in the comparison returned
NetIncome60(k) == result[FormOrder[k]].summary_60_months.net_income

\* C20: compare_all_forms returns as best_form a regime whose 60-month summary
\* net income is greater than or equal to that of both other regimes; on a tie
\* for the maximum it returns the first tied regime in the fixed order
\* tax_scale, linear_tax, lump_sum.
C20_BestFormIsFirstMaximum ==
    result.kind = "ComparisonResult" =>
        \E best \in 1..3 :
            /\ result.best_form = FormOrder[best]
            /\ \A k \in 1..3 : NetIncome60(k) <= NetIncome60(best)
            /\ \A k \in 1..3 : NetIncome60(k) = NetIncome60(best) => best <= k

C20_Witness ==
    /\ result.kind = "ComparisonResult"
    /\ NetIncome60(1) = NetIncome60(2)
    /\ NetIncome60(3) < NetIncome60(1)
    /\ result.best_form = "tax_scale"

----------------------------------------------------------------------------
(* Properties of services/time_utils.py, checked under SpecMonths *)

BaseYear == ParseInt(SubSeq(args.base_month, 1, 4))
BaseMonthNumber == ParseInt(SubSeq(args.base_month, 6, 7))

\* the order of str: "-" sorts before the digits
CharRank(ch) == IF ch = "-" THEN 0 ELSE DigitValue(ch) + 1

RECURSIVE LexLess(_, _)
LexLess(a, b) ==
    IF a = <<>> THEN b # <<>>
    ELSE IF b = <<>> THEN FALSE
    ELSE IF Head(a) = Head(b) THEN LexLess(Tail(a), Tail(b))
    ELSE CharRank(Head(a)) < CharRank(Head(b))

\* dates are 60 first-of-month dates, the k-th one k - 1 calendar months after
\* the base month
SixtyMonthsFromBase(dates) ==
    /\ DOMAIN dates = 1..60
    /\ \A k \in 1..60 :
          /\ dates[k].day = 1
          /\ dates[k].month \in 1..12
          /\ dates[k].year * 12 + dates[k].month
                = BaseYear * 12 + BaseMonthNumber + (k - 1)

\* labels are 60 strictly increasing strings of the shape YYYY-MM
SixtyIncreasingLabels(labels) ==
    /\ DOMAIN labels = 1..60
    /\ \A k \in 1..60 : Len(labels[k]) = 7 /\ labels[k][5] = "-"
    /\ \A k \in 1..59 : LexLess(labels[k], labels[k + 1])
    /\ \A j \in 1..60 : \A k \in 1..60 : j # k => labels[j] # labels[k]

MonthsRoundTrip ==
    /\ ret.raised = "none"
    /\ fn = "generate_months" => SixtyMonthsFromBase(ret.value)
    /\ fn = "format_month" =>
          /\ SixtyIncreasingLabels(ret.value)
          /\ args.base_month = <<"2", "0", "2", "5", "-", "0", "1">> =>
                /\ ret.value[1] = <<"2", "0", "2", "5", "-", "0", "1">>
                /\ ret.value[60] = <<"2", "0", "2", "9", "-", "1", "2">>
    /\ fn = "month_to_date" =>
          /\ SixtyIncreasingLabels(ret.value.labels)
          /\ SixtyMonthsFromBase(ret.value.dates)

----------------------------------------------------------------------------
(* Properties of the endpoint, checked under SpecRequest *)

\* C22: every request accepted by validation (base month matching YYYY-MM with
\* month 01..12, any business start date, 60 non-negative revenues and costs,
\* optional one-time costs and lump-sum revenues) is computed to a result:
\* constructing the TaxCalculator and comparing the forms raises no exception.
C22_NoExceptionOnValidatedRequest ==
    fn = "calculate_taxes" =>
        /\ ret.raised = "none"
        /\ result.kind = "ComparisonResult"

\* an amount of whole grosze: no more than 2 fractional digits
HasTwoDecimals(amount) == amount % Grosz(1) = 0

SummaryHasTwoDecimals(summary) ==
    \A field \in {"revenue", "costs", "income", "zus", "tax", "health_insurance",
                   "total_contributions", "total_burden", "net_income"} :
        HasTwoDecimals(summary[field])

FormHasTwoDecimals(form) ==
    /\ \A k \in DOMAIN form.monthly_data :
          /\ HasTwoDecimals(form.monthly_data[k].revenue)
          /\ HasTwoDecimals(form.monthly_data[k].costs)
          /\ HasTwoDecimals(form.monthly_data[k].income)
          /\ HasTwoDecimals(form.monthly_data[k].zus)
          /\ HasTwoDecimals(form.monthly_tax[k])
          /\ HasTwoDecimals(form.monthly_health_insurance[k])
          /\ HasTwoDecimals(form.monthly_net_income[k])
    /\ SummaryHasTwoDecimals(form.summary_6_months)
    /\ SummaryHasTwoDecimals(form.summary_12_months)
    /\ SummaryHasTwoDecimals(form.summary_30_months)
    /\ SummaryHasTwoDecimals(form.summary_60_months)

\* C23: for any validated request, every monetary value of the projection
\* (monthly revenue, costs, income, ZUS, tax, health contribution, net income,
\* and every field of the four period summaries, for the three forms) has no
\* more than 2 fractional digits.
C23_EveryOutputHasTwoDecimals ==
    (fn = "calculate_taxes" /\ ret.raised = "none") =>
        /\ FormHasTwoDecimals(result.tax_scale)
        /\ FormHasTwoDecimals(result.linear_tax)
        /\ FormHasTwoDecimals(result.lump_sum)

----------------------------------------------------------------------------
(* Further properties of domain/zus.py, checked under SpecZus *)

\* C25: determine_zus_stage assigns the stages by the elapsed-month index as
\* its documentation states: relief for the indices -1 to 4, preferential for
\* 5 to 28, full from 29 on.
C25_StagesAsDocumented ==
    fn = "determine_zus_stage" =>
        /\ ElapsedMonths \in -1..4 => ret = "relief"
        /\ ElapsedMonths \in 5..28 => ret = "preferential"
        /\ ElapsedMonths >= 29 => ret = "full"

----------------------------------------------------------------------------
(* Further properties of the TaxCalculator, checked under Spec *)

\* what the method that returned result returns when it is called again
LastCallAgain ==
    IF result.kind = "ComparisonResult" THEN comparison_result
    ELSE IF result.form_name = "tax_scale" THEN tax_scale_result
    ELSE IF result.form_name = "linear_tax" THEN linear_tax_result
    ELSE lump_sum_result

\* C24: a call of calculate_tax_scale, calculate_linear_tax, calculate_lump_sum
\* or compare_all_forms leaves monthly_revenues, monthly_costs, one_time_costs,
\* lump_sum_revenues and months (and the base month and start date) as they
\* were, and after any sequence of calls the method called last returns, when
\* called again, the result it returned.
C24_CallsMutateNothing ==
    /\ [][calculatorFields' = calculatorFields]_vars
    /\ [](result.kind # "none" => result = LastCallAgain)

C24_Witness ==
    /\ result.kind = "ComparisonResult"
    /\ result = comparison_result
    /\ one_time_costs = _convert_one_time_costs(args.one_time_costs)
    /\ 0 \in DOMAIN one_time_costs
    /\ _calculate_monthly_costs(0) > monthly_costs[1]
    /\ Len(lump_sum_revenues) > 0

----------------------------------------------------------------------------
(* Further properties of domain/lump_sum.py, checked under SpecLumpSum *)

\* num / den rounded to whole grosze, a value halfway between two cents going
\* to the higher one
QuantizeHalfUp(num, den) ==
    LET q == num \div den
        r == num % den
    IN  Grosz(IF 2 * r < den THEN q ELSE q + 1)

\* C26: the result is the exact value rounded half-up to 2 decimal places: an
\* exact tax halfway between two cents is returned as the higher cent (stated
\* here of calculate_tax_lump_sum and calculate_monthly_tax_lump_sum, which
\* round as every other tax and health function does).
C26_RoundsHalfUp ==
    fn \in {"calculate_tax_lump_sum", "calculate_monthly_tax_lump_sum"} =>
        ret = QuantizeHalfUp(TotalTaxAfter(args.revenue_by_rate,
                                           Len(args.revenue_by_rate)), 2000)

----------------------------------------------------------------------------
(* Further properties of the endpoint, checked under SpecRequest *)

\* the sum of the amounts of a dict kept as the sequence of its items
AmountsOf(items) == Sum([k \in DOMAIN items |-> items[k][2]])

\* C27: converting the lump-sum entry of a request loses no revenue: the
\* amounts of the converted mapping of a month add up to the amounts of the
\* entry supplied for it, also when two rate strings denote the same rate
\* ("0.1" and "0.10").
C27_ConversionLosesNoRevenue ==
    fn = "_convert_lump_sum_revenues" =>
        \A n \in DOMAIN args.lump_sum_revenues :
            LET item == args.lump_sum_revenues[n]
            IN  (\A later \in (n + 1)..Len(args.lump_sum_revenues) :
                    args.lump_sum_revenues[later].month_index # item.month_index)
                => AmountsOf(ret.value[item.month_index + 1])
                      = AmountsOf(item.revenues_by_rate)

\* C28: when lump_sum_revenues is provided (60 entries, each month_index in
\* 0..59), each month index 0..59 receives the mapping of exactly one supplied
\* entry, and no supplied entry is overwritten by another.
C28_EachMonthFromExactlyOneEntry ==
    (fn = "_convert_lump_sum_revenues" /\ args.lump_sum_revenues # <<>>) =>
        \A i \in 0..59 :
            \E n \in DOMAIN args.lump_sum_revenues :
                /\ args.lump_sum_revenues[n].month_index = i
                /\ \A other \in DOMAIN args.lump_sum_revenues :
                      args.lump_sum_revenues[other].month_index = i => other = n
                /\ ret.value[i + 1] =
                      RevenuesByRateAfter(args.lump_sum_revenues[n].revenues_by_rate,
                                          Len(args.lump_sum_revenues[n].revenues_by_rate))

----------------------------------------------------------------------------
(* Further properties of domain/tax_scale.py and domain/linear_tax.py, checked
   under SpecTax *)

\* the tax the function last called gives for another income
TaxOf(income) ==
    IF fn = "calculate_income_tax_scale" THEN calculate_income_tax_scale(income)
    ELSE IF fn = "calculate_monthly_tax_advance_scale"
    THEN calculate_monthly_tax_advance_scale(income, args.months_count)
    ELSE IF fn = "calculate_income_tax_linear" THEN calculate_income_tax_linear(income)
    ELSE calculate_monthly_tax_advance_linear(income)

\* the incomes b >= a the tax of a is compared with: the next half grosz, the
\* next grosz, and every greater coarse income and income of interest
GreaterIncomes(a) ==
    {a + 1, a + Grosz(1)} \cup {b \in CoarseIncomes \cup TaxIncomesOfInterest : a <= b}

\* C29: each income-based tax function (annual and monthly, scale and linear)
\* is non-negative and non-decreasing in income after rounding: for incomes
\* a <= b, 0 <= tax(a) <= tax(b).
C29_TaxIsMonotone ==
    fn # "none" =>
        /\ 0 <= ret
        /\ \A b \in GreaterIncomes(args.income) : ret <= TaxOf(b)

C29_Witness ==
    /\ fn = "calculate_income_tax_scale"
    /\ args.income = TAX_SCALE_THRESHOLD
    /\ ret = Grosz(1080000)
    /\ TaxOf(args.income + Grosz(1)) = ret
    /\ TaxOf(args.income + Grosz(2)) = ret + Grosz(1)
    /\ TaxOf(PLN(200000)) > ret

----------------------------------------------------------------------------
(* Further properties of the period summaries, checked under Spec *)

\* C30: in every period summary of every form the derived totals agree with
\* the summed fields: total_contributions = zus + health_insurance,
\* total_burden = total_contributions + tax, net_income = income - total_burden.
C30_DerivedTotalsAreConsistent ==
    \A p \in Projections : \A k \in {6, 12, 30, 60} :
        LET summary == SummaryOf(p, k)
        IN  /\ summary.total_contributions = summary.zus + summary.health_insurance
            /\ summary.total_burden = summary.total_contributions + summary.tax
            /\ summary.net_income = summary.income - summary.total_burden

C30_Witness ==
    /\ result.kind = "TaxFormResult"
    /\ result.form_name = "tax_scale"
    /\ result.summary_60_months.zus > 0
    /\ result.summary_60_months.tax > 0
    /\ result.summary_60_months.health_insurance > 0
    /\ result.summary_60_months.total_contributions > result.summary_60_months.zus
    /\ result.summary_60_months.total_burden > result.summary_60_months.total_contributions
    /\ result.summary_60_months.net_income
          = result.summary_60_months.income - result.summary_60_months.total_burden
    /\ result.summary_6_months.net_income < 0

====
